---- MODULE Spec2Model ----
(***************************************************************************)
(* The image acquisition-and-normalization pipeline of                     *)
(* downloadimagesasjpgforce.py (process_csv and the functions it calls),   *)
(* as a state machine over the images directory and the table rows.        *)
(*                                                                         *)
(* A filename is a record [stem, sfx, ext]: "a-1-2.jpg" is                 *)
(* [stem |-> "a", sfx |-> <<1, 2>>, ext |-> "jpg"]; the sequence sfx holds *)
(* the "-k" parts that unique_path appended.  The empty string returned by *)
(* a failed fetch is NoName.                                               *)
(*                                                                         *)
(* sanitize_name of copy_images_to_events.py is modelled on sequences of   *)
(* characters and exercised by a specification of its own, SpecSanitize;   *)
(* main of copy_images_to_events.py is the state machine SpecCopy, and     *)
(* SpecPrograms starts either program.                                     *)
(***************************************************************************)
EXTENDS Integers, Sequences, FiniteSets, TLC

VARIABLES
    dir,        \* images directory: filename -> [st, by, via]
    policy,     \* [force, webp, heic, heif_ok]: the conversion arguments and pillow_heif
    retries,    \* --retries
    input,      \* the input table: its rows as raw cell text
    df,         \* the data frame rows processed so far (parsed cells + image_name)
    output,     \* the rows of the written output table (<<>> until written)
    pc,         \* position of process_csv
    saved,      \* saved_name of the row being processed
    fetched,    \* what the fetch step of this row returned
    tries,      \* outcomes of the GET attempts of this row, in order
    target,     \* target_ext handed to convert_format for this row ("" if none)
    dst,        \* dst_path of convert_format for this row
    env,        \* what main() finds: [in_csv, images_dir, nan_file] (do they exist)
    resp_ct,    \* Content-Type of the response the last GET attempt of this row read
    name_arg,   \* sanitize_name: the argument name, a sequence of characters
    max_len,    \* sanitize_name: the argument max_len
    result,     \* sanitize_name: what it returned for name, then for that result
    args,       \* copy_images_to_events: [csv_found, images_found, readable, dry_run]
    columns,    \* copy_images_to_events: df.columns
    csv_rows,   \* copy_images_to_events: the image and event cells of each row
    events,     \* copy_images_to_events: events_dir, [exists, folders, files]
    cpc,        \* copy_images_to_events: position of main
    rows_done,  \* copy_images_to_events: rows the loop has been through
    copied,     \* copy_images_to_events: the counter copied
    missing     \* copy_images_to_events: the counter missing

\* the state of the download script
pipeline == <<dir, policy, retries, input, df, output, pc, saved, fetched, tries, target, dst,
              env, resp_ct>>

\* the arguments and results of sanitize_name
sanitizing == <<name_arg, max_len, result>>

\* the state of copy_images_to_events.py
copying == <<args, columns, csv_rows, events, cpc, rows_done, copied, missing>>

\* what no step of the download script touches
others == <<sanitizing, copying>>

vars == <<pipeline, others>>

\* Bounds of the model.
MaxRecords == 2
MaxRetries == 2

----------------------------------------------------------------------------
\* Filenames

NoName == [stem |-> "", sfx |-> <<>>, ext |-> ""]

Name(stem, ext) == [stem |-> stem, sfx |-> <<>>, ext |-> ext]

\* f"{base}-{i}{ext}" with base = Path(filename).stem, ext = Path(filename).suffix
Suffixed(filename, i) == [filename EXCEPT !.sfx = Append(@, i)]

\* src_path.stem + f".{target_ext}"
WithExt(filename, ext) == [filename EXCEPT !.ext = ext]

\* str.lower() on an extension
Lower(ext) ==
    CASE ext = "WEBP" -> "webp"
      [] ext = "HEIF" -> "heif"
      [] OTHER -> ext

Exists(d, filename) == filename \in DOMAIN d

\* A mutation of unique_path: the existence test is dropped.
unique_path_no_test(d, filename) == filename

\* A mutation of unique_path: the counter starts at 2.
unique_path_from_two(d, filename) ==
    IF Exists(d, filename)
    THEN LET k == CHOOSE k \in 2..(Cardinality(DOMAIN d) + 2) :
                    /\ ~Exists(d, Suffixed(filename, k))
                    /\ \A j \in 2..(k - 1) : Exists(d, Suffixed(filename, j))
         IN Suffixed(filename, k)
    ELSE filename

RECURSIVE unique_path_loop(_, _, _, _)
unique_path_loop(d, filename, candidate, i) ==
    IF Exists(d, candidate)
    THEN unique_path_loop(d, filename, Suffixed(filename, i), i + 1)
    ELSE candidate

unique_path(d, filename) == unique_path_loop(d, filename, filename, 1)

\* A file as the directory holds it: complete or truncated, the row that wrote it
\* (0: it was there before the run) and the step that wrote it.
File(st, by, via) == [st |-> st, by |-> by, via |-> via]

\* open(path, "wb") / write_bytes / Image.save on a path
Write(d, filename, f) == (filename :> f) @@ d

\* Path.unlink
Unlink(d, filename) == [n \in (DOMAIN d) \ {filename} |-> d[n]]

Empty == [n \in {} |-> File("complete", 0, "pre")]

----------------------------------------------------------------------------
\* Content types and extensions

\* mimetypes.guess_extension on the media type; "" is None
mimetypes_guess_extension(t) ==
    CASE t = "image/jpeg" -> "jpg"
      [] t = "image/png" -> "png"
      [] t = "image/webp" -> "webp"
      [] t = "image/heic" -> "heic"
      [] t = "text/html" -> "html"
      [] OTHER -> ""

ContentTypes == {"", "image/jpeg", "image/png", "image/webp", "image/heic",
                 "text/html", "image/x-foo", "application/x-foo"}

IsImageType(ct) == ct \in {"image/jpeg", "image/png", "image/webp", "image/heic", "image/x-foo"}

\* ct.split("/", 1)[-1]
Subtype(ct) ==
    CASE ct = "image/jpeg" -> "jpeg"
      [] ct = "image/png" -> "png"
      [] ct = "image/webp" -> "webp"
      [] ct = "image/heic" -> "heic"
      [] ct = "image/x-foo" -> "x-foo"
      [] ct = "text/html" -> "html"
      [] OTHER -> "x-foo"

guess_ext_from_content_type(ct) ==
    IF ct = "" THEN "jpg"
    ELSE LET ext == mimetypes_guess_extension(ct) IN
         IF ext \in {"jpe", "jpeg", "jpg"} THEN "jpg"
         ELSE IF ext # "" THEN ext
         ELSE IF IsImageType(ct)
              THEN (IF Subtype(ct) \in {"jpeg", "jpg"} THEN "jpg" ELSE Subtype(ct))
              ELSE "jpg"

\* A mutation of response_ext: the Content-Type decides whatever the URL implies.
response_ext_ct_first(ct, ext_from_url) == guess_ext_from_content_type(ct)

\* ext = guess_ext_from_content_type(ct) or ext_from_url, then the URL's own
\* extension when it is not ".jpg"
response_ext(ct, ext_from_url) ==
    LET ext == IF guess_ext_from_content_type(ct) # ""
               THEN guess_ext_from_content_type(ct) ELSE ext_from_url
    IN IF ext_from_url # "" /\ ext_from_url # "jpg" THEN ext_from_url ELSE ext

----------------------------------------------------------------------------
\* References: the values a url cell can hold, with what the code derives from each
\* (kind: the branch of process_csv that handles it; stem: the sanitized stem or
\* img_<sha1[:10]>; ext: ext_from_url or the local file's suffix; ct: the media
\* type of a data: header; good: the payload decodes).

Ref(text, kind, stem, ext, ct, good) ==
    [text |-> text, kind |-> kind, stem |-> stem, ext |-> ext, ct |-> ct, good |-> good]

Refs == {
    Ref("", "empty", "", "", "", FALSE),
    Ref("data:image/png", "data_nocomma", "img_d0", "", "image/png", FALSE),
    Ref("data:image/png;base64,iVBORw==", "data", "img_d1", "", "image/png", TRUE),
    Ref("data:image/webp;base64,abc", "data", "img_d2", "", "image/webp", FALSE),
    Ref("http://x/a.jpg", "http", "a", "jpg", "", TRUE),
    Ref("http://x/a.webp", "http", "a", "webp", "", TRUE),
    Ref("/in/p.WEBP", "local", "img_l1", "WEBP", "", TRUE),
    Ref("/in/q.HEIF", "local", "img_l2", "HEIF", "", TRUE),
    Ref("/in/r.heic", "local", "img_l3", "heic", "", TRUE),
    Ref("ftp://x/a.jpg", "missing", "", "", "", FALSE),
    Ref("nan", "missing", "", "", "", FALSE),
    Ref("http://[x", "badurl", "", "", "", FALSE) }

RefOf(url) == CHOOSE r \in Refs : r.text = url

\* Content-Type headers a server answers with
ResponseTypes == {"", "image/webp", "text/html"}

----------------------------------------------------------------------------
\* The table: raw cell text, pandas' parsed value, and the text written back

NaN == "<NaN>"

\* pd.read_csv: the default na_values become NaN
NaValues == {"", "NA", "nan"}

ReadCell(text) == IF text \in NaValues THEN NaN ELSE text

\* df.to_csv: na_rep = ""
WriteCell(v) == IF v = NaN THEN "" ELSE v

\* str.strip()
Strip(text) == IF text = " " THEN "" ELSE text

\* str(row.get("url", "") or "").strip()
UrlOf(v) == IF v = NaN THEN "nan" ELSE Strip(v)

Absent == "<absent>"

RawRow(url, caption, old) == [url |-> url, caption |-> caption, image_name |-> old]

UrlCells == {"", " ", "data:image/png", "data:image/png;base64,iVBORw==",
             "data:image/webp;base64,abc", "http://x/a.jpg", "http://x/a.webp",
             "/in/p.WEBP", "/in/q.HEIF", "/in/r.heic", "ftp://x/a.jpg", "http://[x"}

\* index of the row being processed (of the next row between two rows)
Row == Len(df) + 1

\* the reference a raw url cell stands for once parsed
ParsedRef(url) == RefOf(UrlOf(ReadCell(url)))

\* Path("nan") when a regular file of that name is in the working directory
NanFile == Ref("nan", "local", "img_l0", "", "", TRUE)

CurRef ==
    LET r == ParsedRef(input[Row].url) IN
    IF r.text = "nan" /\ env.nan_file THEN NanFile ELSE r

----------------------------------------------------------------------------
\* Initial state: main entered with its arguments, nothing read yet.
\* The runs are drawn from three families: a table of one row under every
\* configuration and environment, tables of up to MaxRecords rows under the
\* default and the force-format configuration, and runs whose input table is
\* missing.

a_jpg == Name("a", "jpg")

Pre == File("complete", 0, "pre")

InitialDirs == {
    Empty,
    (a_jpg :> Pre),
    (a_jpg :> Pre) @@ (Suffixed(a_jpg, 1) :> Pre),
    (Name("a", "png") :> Pre) }

Policy(force, webp, heic, heif_ok) ==
    [force |-> force, webp |-> webp, heic |-> heic, heif_ok |-> heif_ok]

Policies == [force : {"", "png"}, webp : {"", "jpg"}, heic : {"", "jpg"}, heif_ok : BOOLEAN]

SingleRowTables == { <<RawRow(url, "sunset", Absent)>> : url \in UrlCells }

BatchRows(old) == {
    RawRow("", "NA", old),
    RawRow("data:image/png;base64,iVBORw==", "sunset", old),
    RawRow("http://x/a.jpg", "sunset", old),
    RawRow("http://x/a.webp", "NA", old),
    RawRow("/in/p.WEBP", "sunset", old),
    RawRow("http://[x", "sunset", old) }

BatchTables ==
    UNION { UNION { [1..n -> BatchRows(old)] : n \in 0..MaxRecords } : old \in {Absent, "old.jpg"} }

BatchPolicies == { Policy("", "jpg", "jpg", FALSE), Policy("jpg", "jpg", "jpg", TRUE) }

\* sanitize_name is not being exercised
SanitizeOff ==
    /\ name_arg = <<>>
    /\ max_len = 0
    /\ result = <<>>

Args(csv_found, images_found, readable, dry_run) ==
    [csv_found |-> csv_found, images_found |-> images_found, readable |-> readable,
     dry_run |-> dry_run]

EventsDir(exists, folders, files) == [exists |-> exists, folders |-> folders, files |-> files]

\* copy_images_to_events.py is not running
CopyOff ==
    /\ args = Args(FALSE, FALSE, FALSE, FALSE)
    /\ columns = {}
    /\ csv_rows = <<>>
    /\ events = EventsDir(FALSE, {}, {})
    /\ cpc = "off"
    /\ rows_done = 0
    /\ copied = 0
    /\ missing = 0

Env(in_csv, images_dir, nan_file) ==
    [in_csv |-> in_csv, images_dir |-> images_dir, nan_file |-> nan_file]

\* a file named nan matters only to a table with an empty url cell
HasEmptyUrl(table) == \E k \in 1..Len(table) : ReadCell(table[k].url) = NaN

Init ==
    /\ \/ /\ input \in SingleRowTables
          /\ policy \in Policies
          /\ retries \in 0..MaxRetries
          /\ dir \in InitialDirs
          /\ \E images_dir \in BOOLEAN, nan_file \in BOOLEAN :
                /\ ~images_dir => dir = Empty
                /\ nan_file => HasEmptyUrl(input)
                /\ env = Env(TRUE, images_dir, nan_file)
       \/ /\ input \in BatchTables
          /\ policy \in BatchPolicies
          /\ retries = 1
          /\ dir \in {Empty, (a_jpg :> Pre)}
          /\ env = Env(TRUE, TRUE, FALSE)
       \/ /\ input = <<>>
          /\ policy \in BatchPolicies
          /\ retries = 1
          /\ dir \in {Empty, (a_jpg :> Pre)}
          /\ \E images_dir \in BOOLEAN :
                /\ ~images_dir => dir = Empty
                /\ env = Env(FALSE, images_dir, FALSE)
    /\ df = <<>>
    /\ output = <<>>
    /\ pc = "main"
    /\ resp_ct = ""
    /\ SanitizeOff
    /\ CopyOff
    /\ saved = NoName
    /\ fetched = NoName
    /\ tries = <<>>
    /\ target = ""
    /\ dst = NoName

----------------------------------------------------------------------------
\* main: the input table is looked for before process_csv is called

\* if not in_csv.exists(): print(...); sys.exit(1)
main ==
    /\ pc = "main"
    /\ pc' = IF env.in_csv THEN "process_csv" ELSE "exit1"
    /\ UNCHANGED <<others, env, resp_ct, dir, policy, retries, input, df, output, saved, fetched,
                   tries, target, dst>>

\* process_csv is entered: images_dir.mkdir(parents=True, exist_ok=True), then
\* pd.read_csv(in_csv) and the image_name column
mkdir ==
    /\ pc = "process_csv"
    /\ env' = [env EXCEPT !.images_dir = TRUE]
    /\ pc' = "loop"
    /\ UNCHANGED <<others, resp_ct, dir, policy, retries, input, df, output, saved, fetched,
                   tries, target, dst>>

----------------------------------------------------------------------------
\* process_csv: the loop over the rows

\* for i, row in df.iterrows(): the next row is taken up; saved_name = ""
Begin ==
    /\ pc = "loop"
    /\ Len(df) < Len(input)
    /\ tries' = <<>>
    /\ target' = ""
    /\ dst' = NoName
    /\ resp_ct' = ""
    /\ UNCHANGED <<others, env, policy, retries, input, df, output>>

\* the fetch step returned name (NoName: the empty string)
Fetched(name) ==
    /\ saved' = name
    /\ fetched' = name
    /\ pc' = IF name # NoName THEN "convert" ELSE "annotate"

\* if url: is false
row_empty ==
        /\ Begin
        /\ CurRef.kind = "empty"
        /\ Fetched(NoName)
        /\ dir' = dir

\* save_data_url: the directory it leaves and the name it returns, for a data:
\* reference r and the outcome io of write_bytes (taken as all or nothing)
save_data_url(d, r, by, io) ==
    IF r.kind = "data_nocomma"
    THEN [dir |-> d, name |-> NoName]
    ELSE LET out_path == unique_path(d, Name(r.stem, guess_ext_from_content_type(r.ct))) IN
         IF ~r.good
         THEN [dir |-> d, name |-> NoName]
         ELSE IF io = "ok"
              THEN [dir |-> Write(d, out_path, File("complete", by, "fetch")), name |-> out_path]
              ELSE [dir |-> d, name |-> NoName]

\* url.startswith("data:")
row_data ==
    \E io \in {"ok", "failed"} :
        /\ Begin
        /\ CurRef.kind \in {"data", "data_nocomma"}
        /\ LET got == save_data_url(dir, CurRef, Row, io) IN
            /\ dir' = got.dir
            /\ Fetched(got.name)

\* A mutation of range_exhausted: one attempt too many.
range_exhausted_late(done, n) == done > n

\* for _ in range(retries): no attempt is left after `done` of them
range_exhausted(done, n) == done >= n

\* parsed.scheme in ("http", "https"): download_http_image is entered
row_http ==
        /\ Begin
        /\ CurRef.kind = "http"
        /\ dir' = dir
        /\ IF range_exhausted(0, retries)
           THEN Fetched(NoName)
           ELSE /\ pc' = "http"
                /\ saved' = NoName
                /\ fetched' = NoName

\* one pass of the try block of download_http_image: outcome is what the server
\* and the network do ("status": raise_for_status raises; "transport": the GET or
\* the open fails; "midstream": the body breaks off while it is written)
http_response(d, r, by, outcome, ct) ==
    LET out_path == unique_path(d, Name(r.stem, response_ext(ct, r.ext))) IN
    CASE outcome = "ok" ->
             [dir |-> Write(d, out_path, File("complete", by, "fetch")), name |-> out_path]
      [] outcome = "midstream" ->
             [dir |-> Write(d, out_path, File("partial", by, "fetch")), name |-> NoName]
      [] OTHER -> [dir |-> d, name |-> NoName]

\* one iteration of the retry loop; resp_ct is the Content-Type the attempt read
\* (r.headers.get is reached only after raise_for_status passed)
http_attempt ==
    /\ pc = "http"
    /\ \E outcome \in {"ok", "status", "transport", "midstream"}, ct \in ResponseTypes :
        LET got == http_response(dir, CurRef, Row, outcome, ct) IN
            /\ dir' = got.dir
            /\ tries' = Append(tries, outcome)
            /\ resp_ct' = IF outcome \in {"ok", "midstream"} THEN ct ELSE ""
            /\ IF got.name # NoName \/ range_exhausted(Len(tries) + 1, retries)
               THEN Fetched(got.name)
               ELSE UNCHANGED <<pc, saved, fetched>>
    /\ UNCHANGED <<others, env, policy, retries, input, df, output, target, dst>>

\* p.exists() and p.is_file(): the file is copied; io is what read_bytes and
\* write_bytes (taken as all or nothing) do, and an error of either leaves
\* process_csv, which catches nothing here
row_local ==
    \E io \in {"ok", "read_failed", "write_failed"} :
        /\ Begin
        /\ CurRef.kind = "local"
        /\ LET r == CurRef
               dest == unique_path(dir, Name(r.stem, IF r.ext # "" THEN r.ext ELSE "jpg"))
           IN IF io = "ok"
              THEN /\ dir' = Write(dir, dest, File("complete", Row, "fetch"))
                   /\ Fetched(dest)
              ELSE /\ dir' = dir
                   /\ pc' = "aborted"
                   /\ saved' = NoName
                   /\ fetched' = NoName

\* neither a data: value, an http(s) URL nor an existing file: the warning
row_unsupported ==
        /\ Begin
        /\ CurRef.kind = "missing"
        /\ Fetched(NoName)
        /\ dir' = dir

\* urlparse(url) raises ValueError; nothing in process_csv catches it
row_badurl ==
        /\ Begin
        /\ CurRef.kind = "badurl"
        /\ pc' = "aborted"
        /\ saved' = NoName
        /\ fetched' = NoName
        /\ dir' = dir

----------------------------------------------------------------------------
\* Normalization: maybe_convert_by_ext and convert_format

\* A mutation of maybe_convert_target: the per-format rules come before force_format.
maybe_convert_target_ext_first(filename, convert_webp_to, convert_heic_to, force_format, heif_ok) ==
    LET lower == Lower(filename.ext) IN
    IF lower = "webp" /\ convert_webp_to # "" THEN convert_webp_to
    ELSE IF lower \in {"heic", "heif"} /\ convert_heic_to # ""
         THEN (IF ~heif_ok THEN "" ELSE convert_heic_to)
    ELSE force_format

\* the decision of maybe_convert_by_ext: the target_ext it hands to
\* convert_format, "" when it returns filename itself
maybe_convert_target(filename, convert_webp_to, convert_heic_to, force_format, heif_ok) ==
    LET lower == Lower(filename.ext) IN
    IF force_format # "" THEN force_format
    ELSE IF lower = "webp" /\ convert_webp_to # "" THEN convert_webp_to
    ELSE IF lower \in {"heic", "heif"} /\ convert_heic_to # ""
         THEN (IF ~heif_ok THEN "" ELSE convert_heic_to)
    ELSE ""

\* if saved_name: maybe_convert_by_ext up to the try block of convert_format
maybe_convert_by_ext ==
    /\ pc = "convert"
    /\ LET t == maybe_convert_target(saved, policy.webp, policy.heic, policy.force,
                                     policy.heif_ok)
       IN /\ target' = t
          /\ IF t = "" \/ ~Exists(dir, saved)
             THEN /\ pc' = "annotate"
                  /\ dst' = dst
             ELSE /\ pc' = "conv_save"
                  /\ dst' = unique_path(dir, WithExt(saved, t))
    /\ UNCHANGED <<others, env, resp_ct, dir, policy, retries, input, df, output, saved,
                   fetched, tries>>

\* A mutation of save_failed_dir: the original is removed whether or not the save succeeded.
save_failed_dir_unlinks(d, src, dst_path, by, junk) ==
    Unlink(IF junk THEN Write(d, dst_path, File("partial", by, "conv")) ELSE d, src)

\* the directory after Image.open or _save_rgb_with_background raised; junk: the
\* encoder had created dst_path and left it
save_failed_dir(d, src, dst_path, by, junk) ==
    IF junk THEN Write(d, dst_path, File("partial", by, "conv")) ELSE d

\* A mutation of save_failed_name: the destination is returned after a failure.
save_failed_name_dst(filename, dst_path) == dst_path

\* except UnidentifiedImageError / except Exception: return filename
save_failed_name(filename, dst_path) == filename

\* with Image.open(src_path) as im: ... _save_rgb_with_background(im, dst_path, ...)
convert_format_save ==
    /\ pc = "conv_save"
    /\ \E res \in {"saved", "unidentified", "failed", "failed_junk"} :
        IF res = "saved"
        THEN /\ dir' = Write(dir, dst, File("complete", Row, "conv"))
             /\ pc' = "conv_unlink"
             /\ saved' = saved
        ELSE /\ dir' = save_failed_dir(dir, saved, dst, Row, res = "failed_junk")
             /\ saved' = save_failed_name(saved, dst)
             /\ pc' = "annotate"
    /\ UNCHANGED <<others, env, resp_ct, policy, retries, input, df, output, fetched, tries,
                   target, dst>>

\* A mutation of unlink_result: the name of the source is returned.
unlink_result_src(filename, dst_path, removed) == filename

\* try: src_path.unlink() except Exception: pass; return dst_path.name
unlink_result(filename, dst_path, removed) == dst_path

convert_format_unlink ==
    /\ pc = "conv_unlink"
    /\ \E removed \in BOOLEAN :
        /\ dir' = IF removed THEN Unlink(dir, saved) ELSE dir
        /\ saved' = unlink_result(saved, dst, removed)
    /\ pc' = "annotate"
    /\ UNCHANGED <<others, env, resp_ct, policy, retries, input, df, output, fetched, tries,
                   target, dst>>

\* read_csv's view of a raw row, with the image_name column added when absent
ParsedRow(raw) ==
    [url |-> ReadCell(raw.url), caption |-> ReadCell(raw.caption),
     image_name |-> IF raw.image_name = Absent THEN "" ELSE raw.image_name]

\* df.at[i, "image_name"] = saved_name
annotate ==
    /\ pc = "annotate"
    /\ df' = Append(df, [ParsedRow(input[Row]) EXCEPT !.image_name = saved])
    /\ pc' = "loop"
    /\ UNCHANGED <<others, env, resp_ct, dir, policy, retries, input, output, saved, fetched,
                   tries, target, dst>>

\* the loop is over: df.to_csv(out_csv, index=False)
to_csv ==
    /\ pc = "loop"
    /\ Len(df) = Len(input)
    /\ output' = [k \in 1..Len(df) |->
                    [url |-> WriteCell(df[k].url), caption |-> WriteCell(df[k].caption),
                     image_name |-> df[k].image_name]]
    /\ pc' = "done"
    /\ UNCHANGED <<others, env, resp_ct, dir, policy, retries, input, df, saved, fetched,
                   tries, target, dst>>

Next ==
    \/ main
    \/ mkdir
    \/ row_empty
    \/ row_data
    \/ row_http
    \/ http_attempt
    \/ row_local
    \/ row_unsupported
    \/ row_badurl
    \/ maybe_convert_by_ext
    \/ convert_format_save
    \/ convert_format_unlink
    \/ annotate
    \/ to_csv

Spec == Init /\ [][Next]_vars

----------------------------------------------------------------------------
\* sanitize_name of copy_images_to_events.py, on sequences of characters.
\* "e_acute" stands for a letter with an accent (NFKD: the letter and a combining
\* mark), "snowman" for a character with no ASCII decomposition, "#" for an ASCII
\* character outside the allowed class.

MaxFill == 5
MaxLenArg == 8

None == <<"<None>">>

unknown == <<"u", "n", "k", "n", "o", "w", "n">>

Alnum == {"a", "e", "u", "n", "k", "o", "w"}

Alphabet == {"a", "_", "-", " ", "#", "e_acute", "snowman"}

\* if not isinstance(name, str): name = str(name) if name is not None else ""
to_str(v) == IF v = None THEN <<>> ELSE v

RECURSIVE nfkd_ascii(_)
\* unicodedata.normalize("NFKD", name).encode("ascii", "ignore").decode("ascii")
nfkd_ascii(str) ==
    IF str = <<>> THEN <<>>
    ELSE (CASE Head(str) = "e_acute" -> <<"e">>
            [] Head(str) = "snowman" -> <<>>
            [] OTHER -> <<Head(str)>>) \o nfkd_ascii(Tail(str))

\* re.sub(r"[^A-Za-z0-9\-_ .]", "_", name)
replace_illegal(str) ==
    [k \in 1..Len(str) |-> IF str[k] \in Alnum \cup {"-", "_", " ", "."} THEN str[k] ELSE "_"]

RECURSIVE lstrip(_, _)
\* str.lstrip(chars)
lstrip(str, chars) ==
    IF str # <<>> /\ Head(str) \in chars THEN lstrip(Tail(str), chars) ELSE str

RECURSIVE rstrip(_, _)
\* str.rstrip(chars)
rstrip(str, chars) ==
    IF str # <<>> /\ str[Len(str)] \in chars
    THEN rstrip(SubSeq(str, 1, Len(str) - 1), chars)
    ELSE str

RECURSIVE collapse(_, _)
\* re.sub(r"[ .]+", "_", name) and re.sub(r"_+", "_", name): every maximal run of
\* characters of chars becomes one underscore
collapse(str, chars) ==
    IF str = <<>> THEN <<>>
    ELSE IF Head(str) \in chars
         THEN <<"_">> \o collapse(lstrip(Tail(str), chars), chars)
         ELSE <<Head(str)>> \o collapse(Tail(str), chars)

\* A mutation of enforce_max_len: the cut is not trimmed again.
enforce_max_len_untrimmed(str, n) == IF Len(str) > n THEN SubSeq(str, 1, n) ELSE str

\* if len(name) > max_len: name = name[:max_len].rstrip("_-")
enforce_max_len(str, n) ==
    IF Len(str) > n THEN rstrip(SubSeq(str, 1, n), {"_", "-"}) ELSE str

sanitize_name(v, n) ==
    LET ascii == nfkd_ascii(to_str(v))
        legal == replace_illegal(ascii)
        words == collapse(collapse(legal, {" ", "."}), {"_"})
        stripped == rstrip(lstrip(words, {"_", "-"}), {"_", "-"})
        cut == enforce_max_len(stripped, n)
    IN IF cut # <<>> THEN cut ELSE unknown

\* the download script is not running
PipelineOff ==
    /\ dir = Empty
    /\ policy = Policy("", "jpg", "jpg", FALSE)
    /\ retries = 0
    /\ input = <<>>
    /\ df = <<>>
    /\ output = <<>>
    /\ pc = "off"
    /\ saved = NoName
    /\ fetched = NoName
    /\ tries = <<>>
    /\ target = ""
    /\ dst = NoName
    /\ env = Env(FALSE, FALSE, FALSE)
    /\ resp_ct = ""

\* strings of up to two characters
Short == {<<>>} \cup { <<c>> : c \in Alphabet } \cup { <<c, d>> : c \in Alphabet, d \in Alphabet }

RECURSIVE Fill(_)
Fill(k) == IF k = 0 THEN <<>> ELSE <<"a">> \o Fill(k - 1)

\* The arguments: None, and every string made of up to two characters, up to
\* MaxFill letters and up to two characters more; max_len up to MaxLenArg.
SanitizeInit ==
    /\ PipelineOff
    /\ name_arg \in {None} \cup { h \o Fill(k) \o t : h \in Short, k \in 0..MaxFill, t \in Short }
    /\ max_len \in 0..MaxLenArg
    /\ result = <<>>
    /\ CopyOff

\* sanitize_name(name, max_len)
sanitize_once ==
    /\ result = <<>>
    /\ result' = <<sanitize_name(name_arg, max_len)>>
    /\ UNCHANGED <<pipeline, copying, name_arg, max_len>>

\* sanitize_name(sanitize_name(name, max_len), max_len)
sanitize_again ==
    /\ Len(result) = 1
    /\ result' = Append(result, sanitize_name(result[1], max_len))
    /\ UNCHANGED <<pipeline, copying, name_arg, max_len>>

SanitizeNext ==
    \/ sanitize_once
    \/ sanitize_again

SpecSanitize == SanitizeInit /\ [][SanitizeNext]_vars

----------------------------------------------------------------------------
\* copy_images_to_events.py: main

\* sanitize_name's default max_len
DefaultMaxLen == 80

\* str.lower() of a column name
str_lower(c) ==
    CASE c = "Image_Name" -> "image_name"
      [] c = "IMAGE" -> "image"
      [] c = "EVENT" -> "event"
      [] OTHER -> c

\* cols = {c.lower(): c for c in df.columns}: its keys
cols(header) == { str_lower(c) : c \in header }

\* the column test of main, negated: both columns are there
has_columns(header) == "image_name" \in cols(header) /\ "event" \in cols(header)

\* A mutation of startup_failure: only the table is looked for.
startup_failure_csv_only(a) == ~a.csv_found

\* not os.path.exists(csv_path), or not os.path.isdir(images_dir)
startup_failure(a) == ~a.csv_found \/ ~a.images_found

\* the files of images_dir
ImageFiles == {"a.jpg"}

\* os.path.basename
basename(path) == IF path = "in/a.jpg" THEN "a.jpg" ELSE path

\* str(row.get(image_col, "")).strip(): an empty cell is NaN, a blank one is blank
raw_img(cell) == Strip(IF ReadCell(cell) = NaN THEN "nan" ELSE cell)

\* str(row.get(event_col, "")).strip(), as characters
raw_evt(cell) ==
    IF cell = <<>> THEN <<"n", "a", "n">> ELSE rstrip(lstrip(cell, {" "}), {" "})

ImageCells == {"", " ", "a.jpg", "in/a.jpg", "b.jpg"}

EventCells == {<<>>, <<"a", " ", "a">>, <<" ", "#">>}

CsvRow(image, event) == [image |-> image, event |-> event]

Headers == { {"image", "event"}, {"image_name", "event"}, {"Image_Name", "EVENT", "caption"},
             {"IMAGE", "EVENT"}, {"image_name", "caption"}, {"event"} }

CopyTables ==
    UNION { [1..n -> { CsvRow(image, event) : image \in ImageCells, event \in EventCells }]
            : n \in 0..MaxRecords }

\* main entered with its arguments; a table that is missing or cannot be parsed
\* has no columns and no rows, and only the image and event cells of a row are kept
CopyInit ==
    /\ PipelineOff
    /\ SanitizeOff
    /\ \E csv_found \in BOOLEAN, images_found \in BOOLEAN, readable \in BOOLEAN,
          dry_run \in BOOLEAN :
            /\ readable => csv_found
            /\ args = Args(csv_found, images_found, readable, dry_run)
            /\ IF readable
               THEN /\ columns \in Headers
                    /\ csv_rows \in IF {"image_name", "image"} \cap cols(columns) # {}
                                        /\ "event" \in cols(columns)
                                     THEN CopyTables ELSE {<<>>}
               ELSE /\ columns = {}
                    /\ csv_rows = <<>>
    /\ events \in {EventsDir(FALSE, {}, {}), EventsDir(TRUE, {}, {})}
    /\ cpc = "main"
    /\ rows_done = 0
    /\ copied = 0
    /\ missing = 0

\* the two startup tests: sys.exit(1) when the table or the images directory is
\* not there
copy_main ==
    /\ cpc = "main"
    /\ cpc' = IF startup_failure(args) THEN "exit1" ELSE "read_csv"
    /\ UNCHANGED <<pipeline, sanitizing, args, columns, csv_rows, events, rows_done, copied,
                   missing>>

\* df = pd.read_csv(csv_path); sys.exit(1) when it raises
copy_read_csv ==
    /\ cpc = "read_csv"
    /\ cpc' = IF args.readable THEN "columns" ELSE "exit1"
    /\ UNCHANGED <<pipeline, sanitizing, args, columns, csv_rows, events, rows_done, copied,
                   missing>>

\* the column test; sys.exit(1) when it fails
copy_check_columns ==
    /\ cpc = "columns"
    /\ cpc' = IF has_columns(columns) THEN "makedirs" ELSE "exit1"
    /\ UNCHANGED <<pipeline, sanitizing, args, columns, csv_rows, events, rows_done, copied,
                   missing>>

\* os.makedirs(events_dir, exist_ok=True)
copy_makedirs ==
    /\ cpc = "makedirs"
    /\ events' = [events EXCEPT !.exists = TRUE]
    /\ cpc' = "rows"
    /\ UNCHANGED <<pipeline, sanitizing, args, columns, csv_rows, rows_done, copied, missing>>

\* for i, row in df.iterrows(): the next row
CopyRow == csv_rows[rows_done + 1]

CopyBegin ==
    /\ cpc = "rows"
    /\ rows_done < Len(csv_rows)
    /\ rows_done' = rows_done + 1
    /\ UNCHANGED <<pipeline, sanitizing, args, columns, csv_rows, cpc>>

\* if not raw_img: continue
copy_row_empty ==
    /\ CopyBegin
    /\ raw_img(CopyRow.image) = ""
    /\ UNCHANGED <<events, copied, missing>>

\* if not os.path.isfile(src_path): missing += 1
copy_row_not_found ==
    /\ CopyBegin
    /\ raw_img(CopyRow.image) # ""
    /\ basename(raw_img(CopyRow.image)) \notin ImageFiles
    /\ missing' = missing + 1
    /\ UNCHANGED <<events, copied>>

\* if args.dry_run: copied += 1
copy_row_dry_run ==
    /\ CopyBegin
    /\ raw_img(CopyRow.image) # ""
    /\ basename(raw_img(CopyRow.image)) \in ImageFiles
    /\ args.dry_run
    /\ copied' = copied + 1
    /\ UNCHANGED <<events, missing>>

\* os.makedirs(dest_folder, exist_ok=True); shutil.copy2(src_path, dest_path),
\* which may raise
copy_row_copy ==
    \E ok \in BOOLEAN :
        /\ CopyBegin
        /\ raw_img(CopyRow.image) # ""
        /\ basename(raw_img(CopyRow.image)) \in ImageFiles
        /\ ~args.dry_run
        /\ LET evt_folder == sanitize_name(raw_evt(CopyRow.event), DefaultMaxLen)
               dest_path == <<evt_folder, basename(raw_img(CopyRow.image))>>
           IN events' = [events EXCEPT !.folders = @ \cup {evt_folder},
                                       !.files = IF ok THEN @ \cup {dest_path} ELSE @]
        /\ copied' = IF ok THEN copied + 1 ELSE copied
        /\ UNCHANGED missing

\* the summary is printed
copy_summary ==
    /\ cpc = "rows"
    /\ rows_done = Len(csv_rows)
    /\ cpc' = "done"
    /\ UNCHANGED <<pipeline, sanitizing, args, columns, csv_rows, events, rows_done, copied,
                   missing>>

CopyNext ==
    \/ copy_main
    \/ copy_read_csv
    \/ copy_check_columns
    \/ copy_makedirs
    \/ copy_row_empty
    \/ copy_row_not_found
    \/ copy_row_dry_run
    \/ copy_row_copy
    \/ copy_summary

SpecCopy == CopyInit /\ [][CopyNext]_vars

----------------------------------------------------------------------------
\* Either program is started.

ProgramsInit == Init \/ CopyInit

ProgramsNext == Next \/ CopyNext

SpecPrograms == ProgramsInit /\ [][ProgramsNext]_vars

----------------------------------------------------------------------------
\* Properties

\* the files the fetch step of row k wrote and that are still there
FetchFiles(k) == { n \in DOMAIN dir : dir[n].by = k /\ dir[n].via = "fetch" }

\* a row is in hand: fetched, tries, target and dst speak of row Row
InRow == pc \in {"http", "convert", "conv_save", "conv_unlink", "annotate"}

\* convert_format got past its exists() test for this row
Converting == InRow /\ target # "" /\ dst # NoName

\* the destination of this row's conversion is fully written
DstComplete == Exists(dir, dst) /\ dir[dst].st = "complete"

\* C1: no failure of a step of one row leaves process_csv: the loop is never
\* abandoned before the last row, and a row whose step failed ends with the empty
\* name or with the name the fetch had given it.
C1_NoRecordFailureAborts ==
    /\ pc # "aborted"
    /\ (pc = "annotate" /\ (fetched = NoName \/ (Converting /\ ~DstComplete)))
           => saved \in {NoName, fetched}

\* C2: a row whose download_http_image or save_data_url returned the empty string
\* gets the empty image_name, and no truncated file is left under a name that
\* unique_path resolved for it.
C2_FailedFetchLeavesNoPartialFile ==
    (pc = "annotate" /\ CurRef.kind \in {"http", "data", "data_nocomma"} /\ fetched = NoName)
        => /\ saved = NoName
           /\ \A n \in FetchFiles(Row) : dir[n].st # "partial"

\* C3: download_http_image makes at most `retries` GET attempts, stops at the first
\* attempt whose body is fully written and returns the name of that file, and
\* returns the empty string only after exactly `retries` attempts; when every
\* attempt ended in a non-2xx status it has created no file.
C3_BoundedRetries ==
    (InRow /\ CurRef.kind = "http") =>
        /\ Len(tries) <= retries
        /\ \A k \in 1..(Len(tries) - 1) : tries[k] # "ok"
        /\ pc = "http" => /\ Len(tries) < retries
                          /\ \A k \in 1..Len(tries) : tries[k] # "ok"
        /\ pc # "http" =>
            /\ (fetched # NoName) <=> (Len(tries) > 0 /\ tries[Len(tries)] = "ok")
            /\ fetched = NoName => Len(tries) = retries
        /\ (pc = "convert" /\ fetched # NoName) =>
            /\ Exists(dir, fetched)
            /\ dir[fetched] = File("complete", Row, "fetch")
        /\ (pc # "http" /\ \A k \in 1..Len(tries) : tries[k] = "status") =>
            /\ fetched = NoName
            /\ Len(tries) = retries
            /\ FetchFiles(Row) = {}

\* C3, its case: all of at least two attempts were answered with a non-2xx status.
C3_Witness ==
    /\ pc = "annotate"
    /\ CurRef.kind = "http"
    /\ retries >= 2
    /\ Len(tries) = retries
    /\ \A k \in 1..Len(tries) : tries[k] = "status"
    /\ fetched = NoName

\* C4: a fetch step that returns a name has created at most one file, whatever
\* attempts failed before the one that succeeded; an inline-data or local-file
\* fetch that fails has created none.
C4_AtMostOneFilePerFetch ==
    /\ pc = "convert" => Cardinality(FetchFiles(Row)) <= 1
    /\ (pc = "annotate" /\ fetched = NoName /\ CurRef.kind \in {"data", "data_nocomma"})
           => FetchFiles(Row) = {}
    /\ (pc = "aborted" /\ CurRef.kind = "local") => FetchFiles(Row) = {}

\* filenames unique_path is asked about
SampleNames == {a_jpg, Suffixed(a_jpg, 1), Name("a", "png"), Name("a", "webp"),
                Name("img_d1", "png"), Name("img_l1", "jpg")}

\* C5: unique_path returns a path that does not exist: the bare name when it is
\* free, otherwise stem-k.ext for the smallest k >= 1 that is free; a.jpg in an
\* empty directory, a-2.jpg when exactly a.jpg and a-1.jpg exist.
C5_UniquePathSmallestFree ==
    /\ \A f \in SampleNames :
        LET p == unique_path(dir, f) IN
            /\ ~Exists(dir, p)
            /\ ~Exists(dir, f) => p = f
            /\ Exists(dir, f) =>
                   \E k \in 1..Cardinality(DOMAIN dir) :
                       /\ p = Suffixed(f, k)
                       /\ \A j \in 1..(k - 1) : Exists(dir, Suffixed(f, j))
    /\ dir = Empty => unique_path(dir, a_jpg) = a_jpg
    /\ DOMAIN dir = {a_jpg, Suffixed(a_jpg, 1)} => unique_path(dir, a_jpg) = Suffixed(a_jpg, 2)

\* C5, its case: a.jpg and a-1.jpg were there and the run has written a-2.jpg.
C5_Witness ==
    /\ Exists(dir, a_jpg)
    /\ Exists(dir, Suffixed(a_jpg, 1))
    /\ Exists(dir, Suffixed(a_jpg, 2))
    /\ dir[Suffixed(a_jpg, 2)].by > 0

\* C6: every step leaves each file that was in the images directory as it was, or
\* removes it: whatever a step writes, it writes to a path that did not exist.
C6_NoOverwrite ==
    [][\A n \in DOMAIN dir' : n \in DOMAIN dir => dir'[n] = dir[n]]_vars

\* C6, its case: the run has written a file next to an older file of the same name.
C6_Witness ==
    /\ Exists(dir, a_jpg)
    /\ dir[a_jpg].by = 0
    /\ Exists(dir, Suffixed(a_jpg, 1))
    /\ dir[Suffixed(a_jpg, 1)].by = 2
    /\ \E n \in DOMAIN dir : dir[n].by = 1

\* C7: the decision of maybe_convert_by_ext: force_format, when set, is the target
\* whatever the extension and the per-format targets; else a .webp file goes to
\* convert_webp_to when that is set; else a .heic/.heif file goes to
\* convert_heic_to when that is set and HEIC decoding is available, and stays as
\* it is, no file touched, when it is not available; every other file stays as
\* it is.
C7_DecisionOrder ==
    [][pc = "convert" =>
        LET lower == Lower(saved.ext)
            forced == policy.force # ""
            webp == ~forced /\ lower = "webp" /\ policy.webp # ""
            heic == ~forced /\ ~webp /\ lower \in {"heic", "heif"} /\ policy.heic # ""
            kept == /\ target' = ""
                    /\ saved' = saved
                    /\ dir' = dir
                    /\ pc' = "annotate"
            to(t) == /\ target' = t
                     /\ pc' = "conv_save"
                     /\ dst'.ext = t
                     /\ dst'.stem = saved.stem
        IN /\ forced => to(policy.force)
           /\ webp => to(policy.webp)
           /\ (heic /\ policy.heif_ok) => to(policy.heic)
           /\ (heic /\ ~policy.heif_ok) => kept
           /\ (~forced /\ ~webp /\ ~heic) => kept
    ]_vars

\* C7, its case: force_format decided for a .webp file although convert_webp_to
\* names another format.
C7_Witness ==
    /\ pc = "conv_save"
    /\ policy.force = "png"
    /\ policy.webp = "jpg"
    /\ Lower(saved.ext) = "webp"
    /\ target = "png"

\* C8: in convert_format the source is gone only when the destination is there and
\* complete, and convert_format then returns the destination; it returns the
\* destination as well when the source could not be removed.
C8_SourceRemovedAfterDestination ==
    Converting =>
        /\ ~Exists(dir, fetched) => DstComplete
        /\ pc = "conv_save" => (Exists(dir, fetched) /\ saved = fetched)
        /\ (pc = "annotate" /\ DstComplete) => saved = dst

\* C8, its case: the conversion is over and the source has been removed.
C8_Witness ==
    /\ pc = "annotate"
    /\ Converting
    /\ ~Exists(dir, fetched)
    /\ saved = dst

\* C9: when decoding or encoding fails, convert_format returns the filename it was
\* given and that file is still there; so the name normalization returns always
\* names a file of the images directory.
C9_FailedConversionKeepsOriginal ==
    (pc = "annotate" /\ fetched # NoName) =>
        /\ Exists(dir, saved)
        /\ (Converting /\ ~DstComplete) => (saved = fetched /\ Exists(dir, fetched))

\* C9, its case: the encoder failed and left a truncated destination behind.
C9_Witness ==
    /\ pc = "annotate"
    /\ Converting
    /\ Exists(dir, dst)
    /\ dir[dst].st = "partial"
    /\ saved = fetched

\* C10: the written table has one row per input row, in order, each with the cells
\* of its input row, and an image_name that is empty or names a stored file.
C10_OutputIsInputPlusImageName ==
    pc = "done" =>
        /\ Len(output) = Len(input)
        /\ \A k \in 1..Len(output) :
            /\ output[k].url = input[k].url
            /\ output[k].caption = input[k].caption
            /\ output[k].image_name = NoName \/ Exists(dir, output[k].image_name)

\* the reference the text of this row's url cell is, read as it stands
CellRef == RefOf(Strip(input[Row].url))

\* C11: a row whose url cell is empty, is a data: value without a comma, or is
\* neither an http(s) URL nor the path of an existing file gets the empty name
\* and no file; a data: value is decoded as inline data, never fetched with a
\* GET nor copied; an http(s) value gets a name only from a GET that succeeded.
C11_Classification ==
    InRow =>
        /\ CellRef.kind \in {"empty", "data_nocomma", "missing"} =>
            /\ fetched = NoName
            /\ saved = NoName
            /\ FetchFiles(Row) = {}
        /\ CellRef.kind = "data" =>
            /\ tries = <<>>
            /\ \A n \in FetchFiles(Row) : n.stem = CellRef.stem
        /\ CellRef.kind = "http" =>
            /\ \A n \in FetchFiles(Row) : n.stem = CellRef.stem
            /\ fetched # NoName => (Len(tries) > 0 /\ tries[Len(tries)] = "ok")

\* the media types guess_ext_from_content_type is applied to in this state: the
\* Content-Type of the response just read, the header of the data: value in hand
AppliedTypes ==
    {resp_ct} \cup (IF InRow /\ CurRef.kind \in {"data", "data_nocomma"} THEN {CurRef.ct} ELSE {})

\* C12: guess_ext_from_content_type answers "jpg" for every Content-Type that is
\* absent, unknown or not one of the image types jpeg, png, gif, webp, bmp and
\* tiff, and answers one of these six extensions for every Content-Type.
C12_ContentTypeExtension ==
    \A t \in ContentTypes \cap AppliedTypes :
        /\ guess_ext_from_content_type(t) \in {"jpg", "png", "gif", "webp", "bmp", "tiff"}
        /\ t = "image/jpeg" => guess_ext_from_content_type(t) = "jpg"
        /\ t = "image/png" => guess_ext_from_content_type(t) = "png"
        /\ t = "image/webp" => guess_ext_from_content_type(t) = "webp"
        /\ t \notin {"image/jpeg", "image/png", "image/gif", "image/webp", "image/bmp",
                      "image/tiff"} => guess_ext_from_content_type(t) = "jpg"

\* C13: every file a GET attempt creates carries the extension the URL implies
\* when that is not "jpg", whatever the Content-Type of the response, and the
\* extension guess_ext_from_content_type derives from the Content-Type of that
\* very attempt when the URL implies "jpg".
C13_UrlExtensionWins ==
    [][pc = "http" =>
        \A n \in (DOMAIN dir') \ (DOMAIN dir) :
            /\ n.stem = CurRef.stem
            /\ CurRef.ext # "jpg" => n.ext = CurRef.ext
            /\ CurRef.ext = "jpg" => n.ext = guess_ext_from_content_type(resp_ct')
    ]_vars

\* C13, its case: a .webp URL was answered with Content-Type text/html and the
\* file was saved as .webp.
C13_Witness ==
    /\ pc = "convert"
    /\ CurRef.kind = "http"
    /\ CurRef.ext = "webp"
    /\ resp_ct = "text/html"
    /\ fetched.ext = "webp"
    /\ Exists(dir, fetched)

\* C14 as stated: sanitize_name applied to its own result returns that result,
\* whatever name and max_len are; for the empty string and for None it returns
\* "unknown".
C14_SanitizeIdempotent ==
    /\ Len(result) = 2 => result[2] = result[1]
    /\ (Len(result) >= 1 /\ name_arg \in {<<>>, None}) => result[1] = unknown

\* C14, amended: sanitize_name applied to its own result returns that result,
\* except when the result is the fallback "unknown" and max_len is between 1 and
\* 6, where the second application cuts the fallback down to max_len characters;
\* so it is idempotent for every name when max_len is 0 or at least 7.  For the
\* empty string and for None it returns "unknown".
C14_SanitizeIdempotentButShortFallback ==
    /\ Len(result) = 2 =>
        /\ (result[2] = result[1]) <=> ~(result[1] = unknown /\ max_len \in 1..(Len(unknown) - 1))
        /\ result[2] # result[1] => result[2] = SubSeq(unknown, 1, max_len)
    /\ (Len(result) >= 1 /\ name_arg \in {<<>>, None}) => result[1] = unknown

\* C14, its case: a name whose cleaned form is longer than max_len was cut and
\* trimmed again, and the second application returned the same.
C14_Witness ==
    /\ Len(result) = 2
    /\ max_len >= Len(unknown)
    /\ Len(sanitize_name(name_arg, Len(name_arg))) > max_len
    /\ Len(result[1]) < max_len
    /\ result[1] # unknown
    /\ result[2] = result[1]

C16_AcceptsImageAndEvent ==
    LET wanted == {"image", "event"} \subseteq cols(columns) IN
        /\ cpc \in {"makedirs", "rows", "done"} => wanted
        /\ (cpc = "exit1" /\ ~startup_failure(args) /\ args.readable) =>
            /\ ~wanted
            /\ events.files = {}
            /\ copied = 0

\* C17: at every point of a run, and so at its end, the rows processed so far
\* that have a non-empty image_name have pairwise different ones, and each of
\* these names is a file of the images directory.
C17_NamesDistinctAndStored ==
    /\ \A j \in 1..Len(df) :
        df[j].image_name # NoName =>
            /\ Exists(dir, df[j].image_name)
            /\ \A k \in 1..Len(df) : k # j => df[k].image_name # df[j].image_name
    /\ pc = "done" =>
        \A j \in 1..Len(output) :
            output[j].image_name # NoName =>
                /\ Exists(dir, output[j].image_name)
                /\ \A k \in 1..Len(output) :
                       k # j => output[k].image_name # output[j].image_name

\* C17, its case: two rows with the same .webp URL were both fetched and
\* converted, and the table has been written.
C17_Witness ==
    /\ pc = "done"
    /\ Len(output) >= 2
    /\ input[1].url = "http://x/a.webp"
    /\ input[2].url = "http://x/a.webp"
    /\ output[1].image_name # NoName
    /\ output[2].image_name # NoName
    /\ output[1].image_name.ext = "jpg"
    /\ output[2].image_name.ext = "jpg"

====
